---- MODULE Spec2Model ----
(***************************************************************************)
(* Model of the cantilever deflection calculator: the deflection kernel    *)
(* (y1, y2, theta1, theta2, y_point_load, theta_point_load), the           *)
(* tabulation phase compute_deflections, the plot phase plot_deflections   *)
(* and main, of compute_deflections.py, over the catalog of                *)
(* beam_library.py.                                                        *)
(*                                                                         *)
(* Numbers are exact rationals <<n, d>> (d > 0, lowest terms).  Lengths    *)
(* are measured in units of half a grid step (0.00125 m), so that the grid *)
(* step 0.0025 m is Step = 2 and a beam length may or may not be a         *)
(* multiple of the step.                                                   *)
(***************************************************************************)
EXTENDS Integers, Sequences, FiniteSets, TLC

VARIABLES
    materials,          \* library.materials : sequence of Material
    beams,              \* library.beams     : sequence of Beam
    loads,              \* library.loads     : sequence of Load
    pc,                 \* position of main / compute_deflections / plot_deflections
    bi,                 \* index of the current beam in the `for beam in beams` loop
    li,                 \* index of the current load in the `for load in loads` loop
    transition_points,  \* dict beam name -> list of T (compute_deflections' store)
    outFile,            \* the output file: "absent", "open" (header written) or "closed"
    rows,               \* data rows written to the csv writer, in order
    charts,             \* figures rendered by plot_deflections, in order
    prompted,           \* (beam name, load name) pairs for which input() was called
    T_input,            \* the characters last read by input() in compute_deflections
    retries,            \* rejected inputs of the prompt loop the run is blocked in
    accepted,           \* history: (beam name, load name) -> T appended for that pair
    caller,             \* entry point taken: "none", "main" or "direct" (plot_deflections called directly)
    plotCalls,          \* number of plot_deflections calls so far
    lastOp,             \* the last BeamLibrary call: method, name argument and message printed
    fpExcess,           \* the double quotient (L + step)/step of np.arange lies above its exact value
    kpc,                \* kernel evaluation: "idle", "args", "distributed" or "point"
    kin,                \* kernel evaluation: the arguments
    kout                \* kernel evaluation: the results

runVars == <<materials, beams, loads, pc, bi, li, transition_points, outFile,
             rows, charts, prompted, T_input, retries, accepted, caller, plotCalls,
             lastOp, fpExcess>>
kVars == <<kpc, kin, kout>>
vars == <<materials, beams, loads, pc, bi, li, transition_points, outFile,
          rows, charts, prompted, T_input, retries, accepted, caller, plotCalls,
          lastOp, fpExcess, kpc, kin, kout>>

----------------------------------------------------------------------------
(* Exact rational arithmetic standing for the float arithmetic of the code. *)

Abs(n) == IF n < 0 THEN -n ELSE n

RECURSIVE GCD(_, _)
GCD(a, b) == IF b = 0 THEN a ELSE GCD(b, a % b)

RNorm(n, d) ==
    LET s == IF d < 0 THEN -1 ELSE 1
        g == GCD(Abs(n), Abs(d))
    IN  <<(s * n) \div g, (s * d) \div g>>

R(i) == <<i, 1>>
RAdd(p, q) == RNorm(p[1] * q[2] + q[1] * p[2], p[2] * q[2])
RNeg(p) == <<-p[1], p[2]>>
RSub(p, q) == RAdd(p, RNeg(q))
RMul(p, q) == RNorm(p[1] * q[1], p[2] * q[2])
RDiv(p, q) == RNorm(p[1] * q[2], p[2] * q[1])
RLt(p, q) == p[1] * q[2] < q[1] * p[2]

RECURSIVE RPow(_, _)
RPow(p, k) == IF k = 0 THEN R(1) ELSE RMul(p, RPow(p, k - 1))

----------------------------------------------------------------------------
(* Beam geometry *)

moment_of_inertia(beam) ==
    RDiv(RMul(R(beam.width), RPow(R(beam.thickness), 3)), R(12))

----------------------------------------------------------------------------
(* Deflection kernel, distributed load *)

y1(x, E1, I, L, w) ==
    RAdd(RSub(RMul(RDiv(RNeg(w), RMul(RMul(R(24), E1), I)), RPow(RSub(L, x), 4)),
              RMul(RDiv(RMul(w, RPow(L, 3)), RMul(RMul(R(6), E1), I)), x)),
         RDiv(RMul(w, RPow(L, 4)), RMul(RMul(R(24), E1), I)))

(* the coupling coefficient with the two moduli exchanged *)
coefficient_swapped(E1, E2, I, L, T, w) ==
    RMul(RDiv(RNeg(w), RMul(R(6), I)),
         RAdd(RDiv(RSub(RPow(L, 3), RPow(RSub(L, T), 3)), E2),
              RDiv(RPow(RSub(L, T), 3), E1)))

coefficient(E1, E2, I, L, T, w) ==
    RMul(RDiv(RNeg(w), RMul(R(6), I)),
         RAdd(RDiv(RSub(RPow(L, 3), RPow(RSub(L, T), 3)), E1),
              RDiv(RPow(RSub(L, T), 3), E2)))

(* y2 with its last term added to, not taken from, the sum *)
y2_Term5Positive(x, E1, E2, I, L, T, w) ==
    LET term1 == RMul(RDiv(RNeg(w), RMul(RMul(R(24), E2), I)), RPow(RSub(L, x), 4))
        term2 == RMul(coefficient(E1, E2, I, L, T, w), x)
        term3 == RMul(RDiv(w, RMul(RMul(R(24), E1), I)),
                      RSub(RSub(RPow(L, 4), RPow(RSub(L, T), 4)),
                           RMul(RMul(R(4), RPow(L, 3)), T)))
        term4 == RMul(RDiv(w, RMul(RMul(R(24), E2), I)), RPow(RSub(L, T), 4))
        term5 == RMul(coefficient(E1, E2, I, L, T, w), T)
    IN  RAdd(RAdd(RAdd(RAdd(term1, term2), term3), term4), term5)

y2(x, E1, E2, I, L, T, w) ==
    LET term1 == RMul(RDiv(RNeg(w), RMul(RMul(R(24), E2), I)), RPow(RSub(L, x), 4))
        term2 == RMul(coefficient(E1, E2, I, L, T, w), x)
        term3 == RMul(RDiv(w, RMul(RMul(R(24), E1), I)),
                      RSub(RSub(RPow(L, 4), RPow(RSub(L, T), 4)),
                           RMul(RMul(R(4), RPow(L, 3)), T)))
        term4 == RMul(RDiv(w, RMul(RMul(R(24), E2), I)), RPow(RSub(L, T), 4))
        term5 == RMul(RNeg(coefficient(E1, E2, I, L, T, w)), T)
    IN  RAdd(RAdd(RAdd(RAdd(term1, term2), term3), term4), term5)

theta1(x, E1, I, L, w) ==
    RSub(RMul(RDiv(w, RMul(RMul(R(6), E1), I)), RPow(RSub(L, x), 3)),
         RDiv(RMul(w, RPow(L, 3)), RMul(RMul(R(6), E1), I)))

theta2(x, E1, E2, I, L, T, w) ==
    LET term1 == RMul(RDiv(w, RMul(RMul(R(6), E2), I)), RPow(RSub(L, x), 3))
    IN  RAdd(term1, coefficient(E1, E2, I, L, T, w))

----------------------------------------------------------------------------
(* Deflection kernel, point load (the parameter y is the load position a) *)

y_point_load_lt(x, P, E1, I, y) ==
    RMul(RDiv(P, RMul(RMul(R(2), E1), I)),
         RSub(RMul(y, RPow(x, 2)), RDiv(RPow(x, 3), R(3))))

y_point_load_ge(x, P, E1, I, y) ==
    RMul(RDiv(RMul(P, RPow(y, 2)), RMul(RMul(R(2), E1), I)), RSub(x, y))

(* the first branch taken up to and including the load position *)
y_point_load_Inclusive(x, P, E1, I, y) ==
    IF ~RLt(y, x) THEN y_point_load_lt(x, P, E1, I, y)
                  ELSE y_point_load_ge(x, P, E1, I, y)

y_point_load(x, P, E1, I, y) ==
    IF RLt(x, y) THEN y_point_load_lt(x, P, E1, I, y)
                 ELSE y_point_load_ge(x, P, E1, I, y)

theta_point_load_lt(x, P, E1, I, y) ==
    RNeg(RMul(RDiv(P, RMul(E1, I)),
              RSub(RMul(y, x), RDiv(RPow(x, 2), R(2)))))

(* the rotation past the load without the factor 2 of the denominator *)
theta_point_load_ge_nohalf(x, P, E1, I, y) ==
    RDiv(RNeg(RMul(P, RPow(y, 2))), RMul(E1, I))

theta_point_load_ge(x, P, E1, I, y) ==
    RDiv(RNeg(RMul(P, RPow(y, 2))), RMul(RMul(R(2), E1), I))

theta_point_load(x, P, E1, I, y) ==
    IF RLt(x, y) THEN theta_point_load_lt(x, P, E1, I, y)
                 ELSE theta_point_load_ge(x, P, E1, I, y)

----------------------------------------------------------------------------
(* Bounds of the model *)

MaxMaterials == 2       \* longest material list of a catalog
MaxBeams == 2           \* longest beam list of a catalog
MaxLoads == 2           \* longest load list of a catalog
MaxRetries == 2         \* most rejected inputs followed within one prompt loop
MaxPlotCalls == 2       \* most plot_deflections calls on one store
MaxLen == 4             \* longest beam of a kernel evaluation
MaxVal == 2             \* largest modulus, load, width and thickness of a kernel evaluation

Step == 2               \* step = 0.0025 m, in units of 0.00125 m

None == 0                \* a field the record's load_type does not use

(* The records a catalog may hold.  Names are pairwise distinct. *)
MaterialPool ==
    { [name |-> "Steel", E |-> 2], [name |-> "Aluminum", E |-> 1] }

BeamPool ==
    { [name |-> "Beam1", length |-> 4, width |-> 1, thickness |-> 2],
      [name |-> "Beam2", length |-> 3, width |-> 2, thickness |-> 1] }

LoadPool ==
    { [name |-> "Uniform Load", load_type |-> "distributed", w |-> 1, P |-> None, a |-> None],
      [name |-> "Point Load 2", load_type |-> "point", w |-> None, P |-> 2, a |-> 2],
      [name |-> "Point Load 1", load_type |-> "point", w |-> None, P |-> 1, a |-> 3],
      [name |-> "Torque", load_type |-> "moment", w |-> None, P |-> None, a |-> None] }

(* Lists without repetition of at most n records of a pool *)
ListsOf(pool, n) ==
    UNION { { s \in [1..k -> pool] : \A i, j \in 1..k : s[i] = s[j] => i = j }
            : k \in 0..n }

(* What the user may type at a prompt, character by character *)
InputPool ==
    { <<>>, <<"a", "b">>, <<"-", "1">>, <<"0">>, <<" ", "2", " ">>, <<"3">>,
      <<"4">> }

(* Stores a caller other than main may hand to plot_deflections *)
StorePool ==
    { <<>>, ("Beam1" :> <<R(2)>>), ("Beam1" :> <<R(2), R(3)>>) @@ ("Beam2" :> <<R(2)>>) }

----------------------------------------------------------------------------
(* str.strip() and float() on the typed characters *)

Digits == {"0", "1", "2", "3", "4", "5", "6", "7", "8", "9"}

DigitVal(c) ==
    CASE c = "0" -> 0 [] c = "1" -> 1 [] c = "2" -> 2 [] c = "3" -> 3
      [] c = "4" -> 4 [] c = "5" -> 5 [] c = "6" -> 6 [] c = "7" -> 7
      [] c = "8" -> 8 [] c = "9" -> 9

RECURSIVE StripLeft(_)
StripLeft(s) == IF s # <<>> /\ s[1] = " " THEN StripLeft(Tail(s)) ELSE s

RECURSIVE StripRight(_)
StripRight(s) ==
    IF s # <<>> /\ s[Len(s)] = " " THEN StripRight(SubSeq(s, 1, Len(s) - 1)) ELSE s

strip(s) == StripRight(StripLeft(s))

RECURSIVE DigitsVal(_)
DigitsVal(s) ==
    IF s = <<>> THEN 0
    ELSE 10 * DigitsVal(SubSeq(s, 1, Len(s) - 1)) + DigitVal(s[Len(s)])

(* float(s): ok = FALSE stands for ValueError.  Covers a sign and digits. *)
float(s) ==
    LET signed == s # <<>> /\ s[1] \in {"-", "+"}
        body == IF signed THEN Tail(s) ELSE s
    IN  IF body = <<>> \/ \E i \in 1..Len(body) : body[i] \notin Digits
        THEN [ok |-> FALSE, val |-> R(0)]
        ELSE [ok |-> TRUE,
              val |-> IF signed /\ s[1] = "-" THEN R(-DigitsVal(body))
                                               ELSE R(DigitsVal(body))]

----------------------------------------------------------------------------
(* The position grid np.arange(0, L + step, step) *)

(* np.arange(start, stop, step) has ceil((stop - start)/step) elements, the
   quotient being taken in double precision.  Where the exact quotient is an
   integer the double quotient may lie just above it (start = 0, stop = 5.0 +
   0.0025, step = 0.0025 gives 2001.0000000000002), which adds an element. *)
ArangeLen(start, stop, step) ==
    ((stop - start + step - 1) \div step)
        + (IF fpExcess /\ (stop - start) % step = 0 THEN 1 ELSE 0)

x_values(L) == [j \in 1..ArangeLen(0, L + Step, Step) |-> R((j - 1) * Step)]

(* itertools.product(materials, repeat=2), as a sequence of pairs *)
product(ms) ==
    [k \in 1..(Len(ms) * Len(ms)) |->
        <<ms[((k - 1) \div Len(ms)) + 1], ms[((k - 1) % Len(ms)) + 1]>>]

----------------------------------------------------------------------------
(* The catalog snapshot and the loop position *)

beam == beams[bi]
load == loads[li]
I == moment_of_inertia(beam)
L == R(beam.length)

InRange(T, len) == RLt(R(0), T) /\ RLt(T, len)

Pair(b, l) == <<b.name, l.name>>

(* transition_points.setdefault(name, []).append(T) *)
StoreAppend(store, name, T) ==
    IF name \in DOMAIN store THEN [store EXCEPT ![name] = Append(@, T)]
                             ELSE (name :> <<T>>) @@ store

(* transition_points.get(name, []) *)
StoreGet(store, name) == IF name \in DOMAIN store THEN store[name] ELSE <<>>

(* a pop that reads the head and leaves the list as it was *)
StorePop_Keeps(store, name) == store

(* Ts.pop(0) on the list held by the store *)
StorePop(store, name) == [store EXCEPT ![name] = Tail(@)]

(* the `for load in loads` / `for beam in beams` loops moving on *)
NextLoad ==
    IF li < Len(loads) THEN bi' = bi /\ li' = li + 1
                       ELSE bi' = bi + 1 /\ li' = 1

AtLoad(p) == pc = p /\ bi <= Len(beams) /\ li <= Len(loads)

----------------------------------------------------------------------------
(* Rows of one (beam, load) pair: material pairs outermost, grid innermost *)

Row(b, l, m1, m2, x, y, theta) ==
    [beam |-> b.name, load |-> l.name, material1 |-> m1.name,
     material2 |-> m2.name, x |-> x, y |-> y, theta |-> theta]

DistributedRow(b, l, m1, m2, x, T) ==
    LET E1 == R(m1.E)
        E2 == R(m2.E)
        Ib == moment_of_inertia(b)
        Lb == R(b.length)
        w == R(l.w)
    IN  IF RLt(x, T)
        THEN Row(b, l, m1, m2, x, y1(x, E1, Ib, Lb, w), theta1(x, E1, Ib, Lb, w))
        ELSE Row(b, l, m1, m2, x, y2(x, E1, E2, Ib, Lb, T, w),
                 theta2(x, E1, E2, Ib, Lb, T, w))

(* the point-load row computed with the modulus of material2 *)
PointRow_Material2(b, l, m1, m2, x) ==
    LET E2 == R(m2.E)
        Ib == moment_of_inertia(b)
        P == R(l.P)
        y_load == R(l.a)
    IN  [beam |-> b.name, load |-> l.name, material1 |-> m1.name,
         material2 |-> m2.name, x |-> x,
         y |-> y_point_load(x, P, E2, Ib, y_load),
         theta |-> theta_point_load(x, P, E2, Ib, y_load)]

PointRow(b, l, m1, m2, x) ==
    LET E1 == R(m1.E)
        Ib == moment_of_inertia(b)
        P == R(l.P)
        y_load == R(l.a)
    IN  Row(b, l, m1, m2, x, y_point_load(x, P, E1, Ib, y_load),
            theta_point_load(x, P, E1, Ib, y_load))

PairRows(b, l, T) ==
    LET xs == x_values(b.length)
        ps == product(materials)
        N == Len(xs)
    IN  [k \in 1..(Len(ps) * N) |->
            LET p == ps[((k - 1) \div N) + 1]
                x == xs[((k - 1) % N) + 1]
            IN  IF l.load_type = "distributed"
                THEN DistributedRow(b, l, p[1], p[2], x, T)
                ELSE PointRow(b, l, p[1], p[2], x)]

(* One figure: a curve of (x, theta) points per material pair *)
Curve(b, l, m1, m2, T) ==
    LET xs == x_values(b.length)
        E1 == R(m1.E)
        E2 == R(m2.E)
        Ib == moment_of_inertia(b)
        Lb == R(b.length)
    IN  [label |-> <<m1.name, m2.name>>,
         points |-> [j \in 1..Len(xs) |->
            <<xs[j],
              IF l.load_type = "distributed"
              THEN IF RLt(xs[j], T) THEN theta1(xs[j], E1, Ib, Lb, R(l.w))
                                    ELSE theta2(xs[j], E1, E2, Ib, Lb, T, R(l.w))
              ELSE theta_point_load(xs[j], R(l.P), E1, Ib, R(l.a))>>]]

Chart(b, l, T) ==
    LET ps == product(materials)
    IN  [beam |-> b.name, load |-> l.name, T |-> T,
         curves |-> [k \in 1..Len(ps) |-> Curve(b, l, ps[k][1], ps[k][2], T)]]

----------------------------------------------------------------------------
(* Initial states *)

NoOp == [op |-> "none", name |-> <<>>, msg |-> "none"]

KernelIdle ==
    /\ kpc = "idle"
    /\ kin = [width |-> 0, thickness |-> 0, E1 |-> 0, E2 |-> 0, w |-> 0,
              P |-> 0, L |-> 0, T |-> 0, a |-> 0, x |-> 0]
    /\ kout = [first_y |-> R(0), second_y |-> R(0),
               first_theta |-> R(0), second_theta |-> R(0)]

RunIdle ==
    /\ materials = <<>> /\ beams = <<>> /\ loads = <<>>
    /\ pc = "idle" /\ bi = 1 /\ li = 1
    /\ transition_points = <<>>
    /\ outFile = "absent" /\ rows = <<>> /\ charts = <<>>
    /\ prompted = {} /\ T_input = <<>> /\ retries = 0 /\ accepted = <<>>
    /\ caller = "none" /\ plotCalls = 0
    /\ lastOp = NoOp
    /\ fpExcess = FALSE

Init ==
    /\ materials \in ListsOf(MaterialPool, MaxMaterials)
    /\ beams \in ListsOf(BeamPool, MaxBeams)
    /\ loads \in ListsOf(LoadPool, MaxLoads)
    /\ pc = "main" /\ bi = 1 /\ li = 1
    /\ transition_points = <<>>
    /\ outFile = "absent" /\ rows = <<>> /\ charts = <<>>
    /\ prompted = {} /\ T_input = <<>> /\ retries = 0 /\ accepted = <<>>
    /\ caller = "none" /\ plotCalls = 0
    /\ lastOp = NoOp
    /\ fpExcess \in IF \E i \in 1..Len(beams) : beams[i].length % Step = 0
                     THEN BOOLEAN ELSE {FALSE}
    /\ KernelIdle

----------------------------------------------------------------------------
(* compute_deflections *)

(* the check of the material list left out *)
EmptyDomain_NoMaterialCheck == beams = <<>> \/ loads = <<>>

EmptyDomain == beams = <<>> \/ loads = <<>> \/ materials = <<>>

ComputeEmpty ==
    /\ pc = "main" /\ caller = "none"
    /\ EmptyDomain
    /\ transition_points' = <<>>
    /\ caller' = "main"
    /\ pc' = "returned"
    /\ UNCHANGED <<lastOp, fpExcess, T_input, materials, beams, loads, bi, li, outFile, rows, charts,
                   prompted, retries, accepted, plotCalls, kpc, kin, kout>>

ComputeOpen ==
    /\ pc = "main" /\ caller = "none"
    /\ ~EmptyDomain
    /\ outFile' = "open"
    /\ rows' = <<>>
    /\ transition_points' = <<>>
    /\ caller' = "main"
    /\ pc' = "compute" /\ bi' = 1 /\ li' = 1
    /\ UNCHANGED <<lastOp, fpExcess, T_input, materials, beams, loads, charts, prompted, retries,
                   accepted, plotCalls, kpc, kin, kout>>

(* a point load prompted for whatever its position *)
Prompts_AnyPosition(b, l) == l.load_type \in {"distributed", "point"}

Prompts(b, l) ==
    \/ l.load_type = "distributed"
    \/ l.load_type = "point" /\ InRange(R(l.a), R(b.length))

Prompt ==
    /\ AtLoad("compute")
    /\ Prompts(beam, load)
    /\ prompted' = prompted \cup {Pair(beam, load)}
    /\ pc' = "prompt"
    /\ UNCHANGED <<lastOp, fpExcess, T_input, materials, beams, loads, bi, li, transition_points, outFile,
                   rows, charts, retries, accepted, caller, plotCalls,
                   kpc, kin, kout>>

SkipPointLoad ==
    /\ AtLoad("compute")
    /\ load.load_type = "point"
    /\ ~Prompts(beam, load)
    /\ NextLoad
    /\ UNCHANGED <<lastOp, fpExcess, T_input, materials, beams, loads, pc, transition_points, outFile,
                   rows, charts, prompted, retries, accepted, caller,
                   plotCalls, kpc, kin, kout>>

SkipUnsupported ==
    /\ AtLoad("compute")
    /\ load.load_type \notin {"distributed", "point"}
    /\ NextLoad
    /\ UNCHANGED <<lastOp, fpExcess, T_input, materials, beams, loads, pc, transition_points, outFile,
                   rows, charts, prompted, retries, accepted, caller,
                   plotCalls, kpc, kin, kout>>

(* the range test with its lower bound included *)
Accepts_ZeroIncluded(typed, len) ==
    LET T == float(strip(typed))
    IN  T.ok /\ ~RLt(T.val, R(0)) /\ RLt(T.val, len)

Accepts(typed, len) ==
    LET T == float(strip(typed))
    IN  T.ok /\ InRange(T.val, len)

(* an invalid input ends compute_deflections instead of being asked again *)
RejectInput_Terminates(typed) ==
    /\ pc = "prompt"
    /\ ~Accepts(typed, L)
    /\ T_input' = typed
    /\ outFile' = "closed"
    /\ pc' = "returned"
    /\ UNCHANGED <<lastOp, fpExcess, materials, beams, loads, bi, li, transition_points, rows,
                   charts, prompted, retries, accepted, caller, plotCalls,
                   kpc, kin, kout>>

RejectInput(typed) ==
    /\ pc = "prompt"
    /\ ~Accepts(typed, L)
    /\ T_input' = typed
    /\ retries < MaxRetries
    /\ retries' = retries + 1
    /\ UNCHANGED <<lastOp, fpExcess, materials, beams, loads, pc, bi, li, transition_points,
                   outFile, rows, charts, prompted, accepted, caller,
                   plotCalls, kpc, kin, kout>>

AcceptInput(typed) ==
    /\ pc = "prompt"
    /\ Accepts(typed, L)
    /\ T_input' = typed
    /\ LET T == float(strip(typed)).val
       IN  /\ transition_points' = StoreAppend(transition_points, beam.name, T)
           /\ accepted' = (Pair(beam, load) :> T) @@ accepted
           /\ rows' = rows \o PairRows(beam, load, T)
    /\ retries' = 0
    /\ pc' = "compute"
    /\ NextLoad
    /\ UNCHANGED <<lastOp, fpExcess, materials, beams, loads, outFile, charts, prompted, caller,
                   plotCalls, kpc, kin, kout>>

ComputeReturn ==
    /\ pc = "compute" /\ bi > Len(beams)
    /\ outFile' = "closed"
    /\ pc' = "returned"
    /\ UNCHANGED <<lastOp, fpExcess, T_input, materials, beams, loads, bi, li, transition_points, rows,
                   charts, prompted, retries, accepted, caller, plotCalls,
                   kpc, kin, kout>>

----------------------------------------------------------------------------
(* main *)

MainNoPlot ==
    /\ pc = "returned"
    /\ DOMAIN transition_points = {}
    /\ pc' = "done"
    /\ UNCHANGED <<lastOp, fpExcess, T_input, materials, beams, loads, bi, li, transition_points, outFile,
                   rows, charts, prompted, retries, accepted, caller,
                   plotCalls, kpc, kin, kout>>

MainPlot ==
    /\ pc = "returned"
    /\ DOMAIN transition_points # {}
    /\ plotCalls' = plotCalls + 1
    /\ pc' = "plot_entry"
    /\ UNCHANGED <<lastOp, fpExcess, T_input, materials, beams, loads, bi, li, transition_points, outFile,
                   rows, charts, prompted, retries, accepted, caller,
                   kpc, kin, kout>>

MainDone ==
    /\ pc = "plot_returned" /\ caller = "main"
    /\ pc' = "done"
    /\ UNCHANGED <<lastOp, fpExcess, T_input, materials, beams, loads, bi, li, transition_points, outFile,
                   rows, charts, prompted, retries, accepted, caller,
                   plotCalls, kpc, kin, kout>>

----------------------------------------------------------------------------
(* plot_deflections *)

(* a caller other than main calls plot_deflections(library, store) *)
PlotDirect(store) ==
    /\ pc = "main" /\ caller = "none"
    /\ transition_points' = store
    /\ caller' = "direct"
    /\ plotCalls' = plotCalls + 1
    /\ pc' = "plot_entry"
    /\ UNCHANGED <<lastOp, fpExcess, T_input, materials, beams, loads, bi, li, outFile, rows, charts,
                   prompted, retries, accepted, kpc, kin, kout>>

(* plot_deflections is called once more on the store it has just consumed *)
PlotAgain ==
    /\ pc = "plot_returned"
    /\ plotCalls < MaxPlotCalls
    /\ plotCalls' = plotCalls + 1
    /\ pc' = "plot_entry"
    /\ UNCHANGED <<lastOp, fpExcess, T_input, materials, beams, loads, bi, li, transition_points, outFile,
                   rows, charts, prompted, retries, accepted, caller,
                   kpc, kin, kout>>

PlotEmpty ==
    /\ pc = "plot_entry"
    /\ EmptyDomain
    /\ pc' = "plot_returned"
    /\ UNCHANGED <<lastOp, fpExcess, T_input, materials, beams, loads, bi, li, transition_points, outFile,
                   rows, charts, prompted, retries, accepted, caller,
                   plotCalls, kpc, kin, kout>>

PlotBegin ==
    /\ pc = "plot_entry"
    /\ ~EmptyDomain
    /\ pc' = "plot" /\ bi' = 1 /\ li' = 1
    /\ UNCHANGED <<lastOp, fpExcess, T_input, materials, beams, loads, transition_points, outFile, rows,
                   charts, prompted, retries, accepted, caller, plotCalls,
                   kpc, kin, kout>>

Ts == StoreGet(transition_points, beam.name)

PlotNoT ==
    /\ AtLoad("plot")
    /\ load.load_type \in {"distributed", "point"}
    /\ Ts = <<>>
    /\ NextLoad
    /\ UNCHANGED <<lastOp, fpExcess, T_input, materials, beams, loads, pc, transition_points, outFile,
                   rows, charts, prompted, retries, accepted, caller,
                   plotCalls, kpc, kin, kout>>

PlotDistributed ==
    /\ AtLoad("plot")
    /\ load.load_type = "distributed"
    /\ Ts # <<>>
    /\ transition_points' = StorePop(transition_points, beam.name)
    /\ charts' = Append(charts, Chart(beam, load, Head(Ts)))
    /\ NextLoad
    /\ UNCHANGED <<lastOp, fpExcess, T_input, materials, beams, loads, pc, outFile, rows, prompted,
                   retries, accepted, caller, plotCalls, kpc, kin, kout>>

PlotPoint ==
    /\ AtLoad("plot")
    /\ load.load_type = "point"
    /\ Ts # <<>>
    /\ transition_points' = StorePop(transition_points, beam.name)
    /\ charts' = Append(charts, Chart(beam, load, Head(Ts)))
    /\ NextLoad
    /\ UNCHANGED <<lastOp, fpExcess, T_input, materials, beams, loads, pc, outFile, rows, prompted,
                   retries, accepted, caller, plotCalls, kpc, kin, kout>>

(* an unsupported load taking the next transition point of the beam *)
PlotUnsupported_Pops ==
    /\ AtLoad("plot")
    /\ load.load_type \notin {"distributed", "point"}
    /\ transition_points' = IF Ts # <<>> THEN StorePop(transition_points, beam.name)
                                        ELSE transition_points
    /\ NextLoad
    /\ UNCHANGED <<lastOp, fpExcess, T_input, materials, beams, loads, pc, outFile, rows, charts,
                   prompted, retries, accepted, caller, plotCalls, kpc, kin, kout>>

PlotUnsupported ==
    /\ AtLoad("plot")
    /\ load.load_type \notin {"distributed", "point"}
    /\ NextLoad
    /\ UNCHANGED <<lastOp, fpExcess, T_input, materials, beams, loads, pc, transition_points, outFile,
                   rows, charts, prompted, retries, accepted, caller,
                   plotCalls, kpc, kin, kout>>

PlotReturn ==
    /\ pc = "plot" /\ bi > Len(beams)
    /\ pc' = "plot_returned"
    /\ UNCHANGED <<lastOp, fpExcess, T_input, materials, beams, loads, bi, li, transition_points, outFile,
                   rows, charts, prompted, retries, accepted, caller,
                   plotCalls, kpc, kin, kout>>

Next ==
    \/ ComputeEmpty
    \/ ComputeOpen
    \/ Prompt
    \/ SkipPointLoad
    \/ SkipUnsupported
    \/ \E typed \in InputPool : RejectInput(typed)
    \/ \E typed \in InputPool : AcceptInput(typed)
    \/ ComputeReturn
    \/ MainNoPlot
    \/ MainPlot
    \/ MainDone
    \/ \E store \in StorePool : PlotDirect(store)
    \/ PlotAgain
    \/ PlotEmpty
    \/ PlotBegin
    \/ PlotNoT
    \/ PlotDistributed
    \/ PlotPoint
    \/ PlotUnsupported
    \/ PlotReturn

Spec == Init /\ [][Next]_vars

----------------------------------------------------------------------------
(* Kernel evaluations: the formulas applied at the boundary of their branches *)

KInit ==
    /\ RunIdle
    /\ kpc = "args"
    /\ kin \in [width : 1..MaxVal, thickness : 1..MaxVal, E1 : 1..MaxVal,
                E2 : 1..MaxVal, w : 1..MaxVal, P : 1..MaxVal, L : 2..MaxLen,
                T : 1..(MaxLen - 1), a : 1..MaxLen, x : {0}]
    /\ kin.T < kin.L
    /\ kout = [first_y |-> R(0), second_y |-> R(0),
               first_theta |-> R(0), second_theta |-> R(0)]

kI == moment_of_inertia(kin)

EvalDistributed ==
    /\ kpc = "args"
    /\ kout' = [first_y |-> y1(R(kin.T), R(kin.E1), kI, R(kin.L), R(kin.w)),
                second_y |-> y2(R(kin.T), R(kin.E1), R(kin.E2), kI, R(kin.L),
                                R(kin.T), R(kin.w)),
                first_theta |-> theta1(R(kin.T), R(kin.E1), kI, R(kin.L), R(kin.w)),
                second_theta |-> theta2(R(kin.T), R(kin.E1), R(kin.E2), kI,
                                        R(kin.L), R(kin.T), R(kin.w))]
    /\ kpc' = "distributed"
    /\ UNCHANGED <<lastOp, fpExcess, T_input, kin, materials, beams, loads, pc, bi, li, transition_points,
                   outFile, rows, charts, prompted, retries, accepted, caller,
                   plotCalls>>

EvalPoint ==
    /\ kpc = "args"
    /\ kout' = [first_y |-> y_point_load_lt(R(kin.a), R(kin.P), R(kin.E1), kI, R(kin.a)),
                second_y |-> y_point_load_ge(R(kin.a), R(kin.P), R(kin.E1), kI, R(kin.a)),
                first_theta |-> theta_point_load_lt(R(kin.a), R(kin.P), R(kin.E1), kI, R(kin.a)),
                second_theta |-> theta_point_load_ge(R(kin.a), R(kin.P), R(kin.E1), kI, R(kin.a))]
    /\ kpc' = "point"
    /\ UNCHANGED <<lastOp, fpExcess, T_input, kin, materials, beams, loads, pc, bi, li, transition_points,
                   outFile, rows, charts, prompted, retries, accepted, caller,
                   plotCalls>>

(* a material paired with itself: the sweep's two branches at a position x *)
EvalSelfPair(x) ==
    /\ kpc = "args"
    /\ kin' = [kin EXCEPT !.x = x]
    /\ kout' = [first_y |-> y1(R(x), R(kin.E1), kI, R(kin.L), R(kin.w)),
                second_y |-> y2(R(x), R(kin.E1), R(kin.E1), kI, R(kin.L),
                                R(kin.T), R(kin.w)),
                first_theta |-> theta1(R(x), R(kin.E1), kI, R(kin.L), R(kin.w)),
                second_theta |-> theta2(R(x), R(kin.E1), R(kin.E1), kI,
                                        R(kin.L), R(kin.T), R(kin.w))]
    /\ kpc' = "selfpair"
    /\ UNCHANGED <<lastOp, fpExcess, materials, beams, loads, pc, bi, li,
                   transition_points, outFile, rows, charts, prompted, T_input,
                   retries, accepted, caller, plotCalls>>

KNext ==
    \/ EvalDistributed
    \/ EvalPoint
    \/ \E x \in 0..(MaxLen + Step) : EvalSelfPair(x)

SpecKernel == KInit /\ [][KNext]_vars

----------------------------------------------------------------------------
(* BeamLibrary: the catalog and its add, remove and modify methods.  Here a
   name is the sequence of its characters, so that str.lower() acts on it. *)

MaxRecords == 2         \* longest list of a catalog that add_* still extends

LowerChar(c) ==
    CASE c = "A" -> "a" [] c = "B" -> "b" [] OTHER -> c

lower(name) == [i \in 1..Len(name) |-> LowerChar(name[i])]

LibNames == { <<"a", "b">>, <<"A", "B">>, <<"b">> }

LibMaterials == { [name |-> n, E |-> 1] : n \in LibNames }
LibBeams == { [name |-> n, length |-> 1, width |-> 1, thickness |-> 1] : n \in LibNames }
LibLoads == { [name |-> n, load_type |-> "distributed", w |-> 1, P |-> None, a |-> None]
              : n \in LibNames }

(* any(rec.name.lower() == name.lower() for rec in recs) *)
Exists(recs, name) == \E i \in 1..Len(recs) : lower(recs[i].name) = lower(name)

(* next((rec for rec in recs if rec.name.lower() == name.lower()), None) *)
Find(recs, name) ==
    CHOOSE i \in 1..Len(recs) :
        /\ lower(recs[i].name) = lower(name)
        /\ \A j \in 1..(i - 1) : lower(recs[j].name) # lower(name)

(* recs.remove(recs[i]) *)
RemoveAt(recs, i) == SubSeq(recs, 1, i - 1) \o SubSeq(recs, i + 1, Len(recs))

LibFrame ==
    UNCHANGED <<pc, bi, li, transition_points, outFile, rows, charts, prompted,
                T_input, retries, accepted, caller, plotCalls, fpExcess,
                kpc, kin, kout>>

add_material(material) ==
    /\ pc = "library"
    /\ Len(materials) < MaxRecords
    /\ IF Exists(materials, material.name)
       THEN /\ lastOp' = [op |-> "add_material", name |-> material.name, msg |-> "already exists"]
            /\ UNCHANGED materials
       ELSE /\ materials' = Append(materials, material)
            /\ lastOp' = [op |-> "add_material", name |-> material.name, msg |-> "added"]
    /\ UNCHANGED <<beams, loads>>
    /\ LibFrame

(* add_beam comparing the names as they are written *)
add_beam_CaseSensitive(b) ==
    /\ pc = "library"
    /\ Len(beams) < MaxRecords
    /\ IF \E i \in 1..Len(beams) : beams[i].name = b.name
       THEN /\ lastOp' = [op |-> "add_beam", name |-> b.name, msg |-> "already exists"]
            /\ UNCHANGED beams
       ELSE /\ beams' = Append(beams, b)
            /\ lastOp' = [op |-> "add_beam", name |-> b.name, msg |-> "added"]
    /\ UNCHANGED <<materials, loads>>
    /\ LibFrame

add_beam(b) ==
    /\ pc = "library"
    /\ Len(beams) < MaxRecords
    /\ IF Exists(beams, b.name)
       THEN /\ lastOp' = [op |-> "add_beam", name |-> b.name, msg |-> "already exists"]
            /\ UNCHANGED beams
       ELSE /\ beams' = Append(beams, b)
            /\ lastOp' = [op |-> "add_beam", name |-> b.name, msg |-> "added"]
    /\ UNCHANGED <<materials, loads>>
    /\ LibFrame

add_load(l) ==
    /\ pc = "library"
    /\ Len(loads) < MaxRecords
    /\ IF Exists(loads, l.name)
       THEN /\ lastOp' = [op |-> "add_load", name |-> l.name, msg |-> "already exists"]
            /\ UNCHANGED loads
       ELSE /\ loads' = Append(loads, l)
            /\ lastOp' = [op |-> "add_load", name |-> l.name, msg |-> "added"]
    /\ UNCHANGED <<materials, beams>>
    /\ LibFrame

remove_material(material_name) ==
    /\ pc = "library"
    /\ IF ~Exists(materials, material_name)
       THEN /\ lastOp' = [op |-> "remove_material", name |-> material_name, msg |-> "not found"]
            /\ UNCHANGED materials
       ELSE /\ materials' = RemoveAt(materials, Find(materials, material_name))
            /\ lastOp' = [op |-> "remove_material", name |-> material_name, msg |-> "removed"]
    /\ UNCHANGED <<beams, loads>>
    /\ LibFrame

remove_beam(beam_name) ==
    /\ pc = "library"
    /\ IF ~Exists(beams, beam_name)
       THEN /\ lastOp' = [op |-> "remove_beam", name |-> beam_name, msg |-> "not found"]
            /\ UNCHANGED beams
       ELSE /\ beams' = RemoveAt(beams, Find(beams, beam_name))
            /\ lastOp' = [op |-> "remove_beam", name |-> beam_name, msg |-> "removed"]
    /\ UNCHANGED <<materials, loads>>
    /\ LibFrame

remove_load(load_name) ==
    /\ pc = "library"
    /\ IF ~Exists(loads, load_name)
       THEN /\ lastOp' = [op |-> "remove_load", name |-> load_name, msg |-> "not found"]
            /\ UNCHANGED loads
       ELSE /\ loads' = RemoveAt(loads, Find(loads, load_name))
            /\ lastOp' = [op |-> "remove_load", name |-> load_name, msg |-> "removed"]
    /\ UNCHANGED <<materials, beams>>
    /\ LibFrame

(* None stands for an argument left at its default *)
modify_beam_dimensions(beam_name, new_length, new_width, new_thickness) ==
    /\ pc = "library"
    /\ IF ~Exists(beams, beam_name)
       THEN /\ lastOp' = [op |-> "modify_beam_dimensions", name |-> beam_name, msg |-> "not found"]
            /\ UNCHANGED beams
       ELSE /\ LET i == Find(beams, beam_name)
                   b == beams[i]
               IN  beams' = [beams EXCEPT ![i] =
                       [name |-> b.name,
                        length |-> IF new_length # None THEN new_length ELSE b.length,
                        width |-> IF new_width # None THEN new_width ELSE b.width,
                        thickness |-> IF new_thickness # None THEN new_thickness
                                                               ELSE b.thickness]]
            /\ lastOp' = [op |-> "modify_beam_dimensions", name |-> beam_name, msg |-> "updated"]
    /\ UNCHANGED <<materials, loads>>
    /\ LibFrame

(* new_length, new_width, new_thickness of a modify_beam_dimensions call *)
LibDimensions == { <<None, None, None>>, <<2, None, None>>, <<None, 1, None>>,
                   <<None, None, 1>>, <<1, 1, 1>> }

(* Catalogs whose names are pairwise distinct ignoring case *)
LibLists(pool) ==
    { s \in ListsOf(pool, MaxRecords) :
        \A i, j \in 1..Len(s) : lower(s[i].name) = lower(s[j].name) => i = j }

LInit ==
    /\ materials \in LibLists(LibMaterials)
    /\ beams \in LibLists(LibBeams)
    /\ loads \in LibLists(LibLoads)
    /\ pc = "library" /\ bi = 1 /\ li = 1
    /\ transition_points = <<>>
    /\ outFile = "absent" /\ rows = <<>> /\ charts = <<>>
    /\ prompted = {} /\ T_input = <<>> /\ retries = 0 /\ accepted = <<>>
    /\ caller = "none" /\ plotCalls = 0
    /\ lastOp = NoOp
    /\ fpExcess = FALSE
    /\ KernelIdle

LNext ==
    \/ \E material \in LibMaterials : add_material(material)
    \/ \E b \in LibBeams : add_beam(b)
    \/ \E l \in LibLoads : add_load(l)
    \/ \E n \in LibNames : remove_material(n)
    \/ \E n \in LibNames : remove_beam(n)
    \/ \E n \in LibNames : remove_load(n)
    \/ \E n \in LibNames, new \in LibDimensions :
            modify_beam_dimensions(n, new[1], new[2], new[3])

SpecLibrary == LInit /\ [][LNext]_vars

----------------------------------------------------------------------------
(* Properties of the kernel, under SpecKernel *)

(* C3: distributed-load continuity at the transition: for E1, E2, I, w, L > 0
   and 0 < T < L, theta1 at x = T equals theta2 at x = T and y1 at x = T
   equals y2 at x = T, exactly. *)
C3_DistributedContinuousAtT ==
    kpc = "distributed" =>
        /\ kout.first_theta = kout.second_theta
        /\ kout.first_y = kout.second_y

C3_Witness ==
    /\ kpc = "distributed"
    /\ kin.E1 # kin.E2
    /\ kin.L = MaxLen /\ kin.T = 1
    /\ kout.first_theta # R(0)
    /\ kout.first_y # R(0)

(* C4: point-load deflection is continuous at the load point: the x < a
   expression of y_point_load at x = a equals the x >= a expression at
   x = a. *)
C4_PointDeflectionContinuousAtA ==
    kpc = "point" => kout.first_y = kout.second_y

(* C5: point-load rotation is continuous at the load point: the x < a
   expression of theta_point_load at x = a equals the x >= a value
   -P*a^2/(2*E1*I). *)
C5_PointRotationContinuousAtA ==
    kpc = "point" => kout.first_theta = kout.second_theta

C5_Witness ==
    /\ kpc = "point"
    /\ kin.a = MaxLen /\ kin.P = MaxVal
    /\ kout.second_theta # R(0)

----------------------------------------------------------------------------
(* Properties of a run, under Spec *)

BeamIdx == 1..Len(beams)
LoadIdx == 1..Len(loads)

ChartsOf(b, l) == { k \in 1..Len(charts) : charts[k].beam = b.name /\ charts[k].load = l.name }
RowsOf(b, l) == { k \in 1..Len(rows) : rows[k].beam = b.name /\ rows[k].load = l.name }

(* a is a point-load position outside (0, len), in the integers of the catalog *)
Outside(a, len) == a <= 0 \/ a >= len

(* T (a rational) lies strictly inside (0, len) *)
Inside(T, len) == 0 < T[1] /\ T[1] < len * T[2]

(* the plot loop of the first plot_deflections call has gone past (i, j) *)
PlotPassed(i, j) ==
    \/ pc \in {"plot_returned", "done"} /\ plotCalls >= 1
    \/ plotCalls >= 2
    \/ pc = "plot" /\ (i < bi \/ (i = bi /\ j < li))

(* C1: every chart of the plot phase uses the transition point that
   compute_deflections accepted for that same (beam, load) pair. *)
C1_ChartUsesAcceptedT ==
    caller = "main" =>
        \A k \in 1..Len(charts) :
            /\ <<charts[k].beam, charts[k].load>> \in DOMAIN accepted
            /\ charts[k].T = accepted[<<charts[k].beam, charts[k].load>>]

(* C2: once the plot loop has passed a (beam, load) pair, a chart exists for
   the pair if and only if compute_deflections resolved a transition point
   for that pair; a pair that is not resolved gets no chart. *)
C2_ChartIffResolved ==
    caller = "main" =>
        \A i \in BeamIdx, j \in LoadIdx :
            /\ ChartsOf(beams[i], loads[j]) # {} => Pair(beams[i], loads[j]) \in DOMAIN accepted
            /\ PlotPassed(i, j) /\ Pair(beams[i], loads[j]) \in DOMAIN accepted
                 => ChartsOf(beams[i], loads[j]) # {}

(* C6: a typed candidate is appended to the beam's list iff it is a number
   with 0 < T < L, whatever the position of a point load; every stored T of
   a beam lies in (0, L) of that beam. *)
C6_StoredInRange ==
    caller = "main" =>
        \A i \in BeamIdx :
            \A k \in 1..Len(StoreGet(transition_points, beams[i].name)) :
                Inside(StoreGet(transition_points, beams[i].name)[k], beams[i].length)

C6_AcceptStep ==
    pc = "prompt" =>
        LET T == float(strip(T_input'))
        IN  IF T.ok /\ Inside(T.val, beam.length)
            THEN /\ StoreGet(transition_points', beam.name)
                      = Append(StoreGet(transition_points, beam.name), T.val)
                 /\ \A n \in DOMAIN transition_points \ {beam.name} :
                      transition_points'[n] = transition_points[n]
            ELSE transition_points' = transition_points

C6_AcceptedIffInRange == [](C6_StoredInRange) /\ [][C6_AcceptStep]_vars

C6_Witness ==
    /\ <<"Beam1", "Point Load 1">> \in DOMAIN accepted
    /\ RLt(accepted[<<"Beam1", "Point Load 1">>], R(3))
    /\ Len(StoreGet(transition_points, "Beam1")) = 2

(* C7: an input that is not a number inside (0, L) leaves the store and the
   rows unchanged and the run at the prompt of the same pair; no row of a
   pair exists while the run is still at that pair's prompt. *)
C7_NoRowBeforeAccept ==
    /\ pc = "prompt" => RowsOf(beam, load) = {}
    /\ \A k \in 1..Len(rows) : <<rows[k].beam, rows[k].load>> \in DOMAIN accepted

C7_RejectStep ==
    pc = "prompt" =>
        LET T == float(strip(T_input'))
        IN  ~(T.ok /\ Inside(T.val, beam.length)) =>
                /\ pc' = "prompt" /\ bi' = bi /\ li' = li
                /\ transition_points' = transition_points
                /\ rows' = rows /\ accepted' = accepted
                /\ outFile' = outFile

C7_InvalidInputRetried == [](C7_NoRowBeforeAccept) /\ [][C7_RejectStep]_vars

C7_Witness ==
    /\ pc = "prompt"
    /\ retries = MaxRetries
    /\ T_input = <<>>
    /\ bi = 2 /\ rows # <<>>

(* C8: a point load with a <= 0 or a >= L of the current beam is passed
   without a prompt, without a stored transition point and without a row,
   and the loop goes on with the next load. *)
C8_NoTrace ==
    \A i \in BeamIdx, j \in LoadIdx :
        loads[j].load_type = "point" /\ Outside(loads[j].a, beams[i].length) =>
            /\ Pair(beams[i], loads[j]) \notin prompted
            /\ Pair(beams[i], loads[j]) \notin DOMAIN accepted
            /\ RowsOf(beams[i], loads[j]) = {}

C8_SkipStep ==
    AtLoad("compute") /\ load.load_type = "point" /\ Outside(load.a, beam.length) =>
        /\ pc' = "compute"
        /\ IF li < Len(loads) THEN bi' = bi /\ li' = li + 1 ELSE bi' = bi + 1 /\ li' = 1
        /\ UNCHANGED <<transition_points, rows, prompted, accepted>>

C8_OutOfRangePointLoadSkipped == [](C8_NoTrace) /\ [][C8_SkipStep]_vars

C8_Witness ==
    /\ pc = "prompt" /\ li = 2
    /\ loads[1].load_type = "point" /\ Outside(loads[1].a, beam.length)
    /\ bi = 2 /\ Pair(beams[1], loads[1]) \in DOMAIN accepted

(* C9: a load that is neither distributed nor point leaves no trace in
   either phase: no prompt, no stored transition point, no row, no chart and
   no consumed transition point; both loops go on with what follows it. *)
C9_NoTrace ==
    \A i \in BeamIdx, j \in LoadIdx :
        loads[j].load_type \notin {"distributed", "point"} =>
            /\ Pair(beams[i], loads[j]) \notin prompted
            /\ Pair(beams[i], loads[j]) \notin DOMAIN accepted
            /\ RowsOf(beams[i], loads[j]) = {}
            /\ ChartsOf(beams[i], loads[j]) = {}

C9_SkipStep ==
    (AtLoad("compute") \/ AtLoad("plot"))
        /\ load.load_type \notin {"distributed", "point"} =>
        /\ pc' = pc
        /\ IF li < Len(loads) THEN bi' = bi /\ li' = li + 1 ELSE bi' = bi + 1 /\ li' = 1
        /\ UNCHANGED <<transition_points, rows, prompted, accepted, charts>>

C9_UnsupportedLoadSkipped == [](C9_NoTrace) /\ [][C9_SkipStep]_vars

C9_Witness ==
    /\ pc = "plot" /\ bi = 2 /\ li = 2
    /\ loads[1].load_type = "moment"
    /\ Len(charts) = 1
    /\ RowsOf(beams[1], loads[2]) # {}

(* C10: with an empty list of beams, loads or materials, compute_deflections
   returns an empty store without opening the output file, prompting or
   writing a row, main does not call plot_deflections, and a
   plot_deflections call renders no chart. *)
C10_EmptyDomainDoesNothing ==
    Len(beams) = 0 \/ Len(loads) = 0 \/ Len(materials) = 0 =>
        /\ outFile = "absent"
        /\ rows = <<>>
        /\ prompted = {}
        /\ charts = <<>>
        /\ pc \notin {"compute", "prompt", "plot"}
        /\ caller = "main" => /\ DOMAIN transition_points = {}
                              /\ plotCalls = 0
                              /\ pc \in {"returned", "done"}

C10_Witness ==
    /\ Len(materials) = 0 /\ Len(beams) > 0 /\ Len(loads) > 0
    /\ caller = "main" /\ pc = "done"

----------------------------------------------------------------------------
(* Properties of the sweep, under Spec *)

CeilDiv(a, b) == (a + b - 1) \div b

(* indices of the rows of pair (b, l) written for the material pair (m1, m2) *)
BlockOf(b, l, m1, m2) ==
    { k \in RowsOf(b, l) : rows[k].material1 = m1.name /\ rows[k].material2 = m2.name }

MinOf(S) == CHOOSE k \in S : \A j \in S : k <= j

(* C11: for a distributed load the rows of a (beam, load) pair are n^2
   blocks, one per ordered pair of materials and none twice, each of exactly
   ceil(L/step) + 1 rows at the positions 0, step, 2*step, ... *)
C11_BlocksAndRowsPerBlock ==
    \A i \in BeamIdx, j \in LoadIdx :
        loads[j].load_type = "distributed" /\ Pair(beams[i], loads[j]) \in DOMAIN accepted =>
            /\ Cardinality(RowsOf(beams[i], loads[j]))
                 = Len(materials) * Len(materials) * (CeilDiv(beams[i].length, Step) + 1)
            /\ \A m1, m2 \in 1..Len(materials) :
                 LET B == BlockOf(beams[i], loads[j], materials[m1], materials[m2])
                 IN  /\ Cardinality(B) = CeilDiv(beams[i].length, Step) + 1
                     /\ \A k \in B : rows[k].x = R((k - MinOf(B)) * Step)

(* C12: the grid of every beam starts at 0, contains x = L and no x > L:
   every row and every plotted point has 0 <= x <= L, and the rows and the
   curves of a pair include the position L. *)
C12_GridWithinBeam ==
    /\ \A i \in BeamIdx, j \in LoadIdx :
         RowsOf(beams[i], loads[j]) # {} =>
            /\ rows[MinOf(RowsOf(beams[i], loads[j]))].x = R(0)
            /\ \E k \in RowsOf(beams[i], loads[j]) : rows[k].x = R(beams[i].length)
            /\ \A k \in RowsOf(beams[i], loads[j]) :
                 ~RLt(rows[k].x, R(0)) /\ ~RLt(R(beams[i].length), rows[k].x)
    /\ \A i \in BeamIdx, j \in LoadIdx :
         \A c \in ChartsOf(beams[i], loads[j]) :
            \A k \in 1..Len(charts[c].curves) :
                LET pts == charts[c].curves[k].points
                IN  /\ pts[1][1] = R(0)
                    /\ \E q \in 1..Len(pts) : pts[q][1] = R(beams[i].length)
                    /\ \A q \in 1..Len(pts) :
                         ~RLt(pts[q][1], R(0)) /\ ~RLt(R(beams[i].length), pts[q][1])

ByName(recs, name) == CHOOSE k \in 1..Len(recs) : recs[k].name = name

(* C13: for a point load the tabulated y and theta and the plotted theta at
   every grid position are a function of (P, a, E of material1, I, x) alone:
   neither the accepted transition point nor material2 enters them.  Rows
   are examined in the states that follow a write (rows are only appended),
   curves in the states of the plot loop. *)
C13_PointValuesIgnoreTAndMaterial2 ==
    /\ pc \in {"compute", "returned"} =>
       \A k \in 1..Len(rows) :
         LET b == beams[ByName(beams, rows[k].beam)]
             l == loads[ByName(loads, rows[k].load)]
             m1 == materials[ByName(materials, rows[k].material1)]
         IN  l.load_type = "point" =>
                /\ rows[k].y = y_point_load(rows[k].x, R(l.P), R(m1.E),
                                            moment_of_inertia(b), R(l.a))
                /\ rows[k].theta = theta_point_load(rows[k].x, R(l.P), R(m1.E),
                                                    moment_of_inertia(b), R(l.a))
    /\ pc \in {"plot", "plot_returned"} =>
       \A c \in 1..Len(charts) :
         LET b == beams[ByName(beams, charts[c].beam)]
             l == loads[ByName(loads, charts[c].load)]
         IN  l.load_type = "point" =>
                \A k \in 1..Len(charts[c].curves) :
                    LET m1 == materials[ByName(materials, charts[c].curves[k].label[1])]
                        pts == charts[c].curves[k].points
                    IN  \A q \in 1..Len(pts) :
                            pts[q][2] = theta_point_load(pts[q][1], R(l.P), R(m1.E),
                                                         moment_of_inertia(b), R(l.a))

C13_Witness ==
    /\ Len(materials) = 2
    /\ <<"Beam1", "Point Load 2">> \in DOMAIN accepted
    /\ <<"Beam1", "Point Load 1">> \in DOMAIN accepted
    /\ accepted[<<"Beam1", "Point Load 2">>] # accepted[<<"Beam1", "Point Load 1">>]
    /\ \E c \in 1..Len(charts) : charts[c].load = "Point Load 1" /\ charts[c].beam = "Beam1"

----------------------------------------------------------------------------
(* Properties of the catalog, under SpecLibrary *)

DistinctIgnoringCase(recs) ==
    \A i, j \in 1..Len(recs) : lower(recs[i].name) = lower(recs[j].name) => i = j

(* C14: the names of each category stay pairwise distinct ignoring case; an
   add of a name that is present ignoring case, and a remove or modify of a
   name that is absent, leave the catalog unchanged. *)
C14_NamesDistinct ==
    /\ DistinctIgnoringCase(materials)
    /\ DistinctIgnoringCase(beams)
    /\ DistinctIgnoringCase(loads)

CategoryOf(op) ==
    CASE op \in {"add_material", "remove_material"} -> materials
      [] op \in {"add_beam", "remove_beam", "modify_beam_dimensions"} -> beams
      [] op \in {"add_load", "remove_load"} -> loads
      [] OTHER -> <<>>

C14_RefusedStep ==
    lastOp' # lastOp =>
        LET present == \E i \in 1..Len(CategoryOf(lastOp'.op)) :
                          lower(CategoryOf(lastOp'.op)[i].name) = lower(lastOp'.name)
            isAdd == lastOp'.op \in {"add_material", "add_beam", "add_load"}
        IN  /\ (isAdd /\ present) \/ (~isAdd /\ ~present)
                => UNCHANGED <<materials, beams, loads>>
            /\ (isAdd /\ ~present)
                => Len(materials) + Len(beams) + Len(loads)
                     < Len(materials') + Len(beams') + Len(loads')

C14_CatalogNamesStayDistinct == [](C14_NamesDistinct) /\ [][C14_RefusedStep]_vars

C14_Witness ==
    /\ lastOp = [op |-> "add_beam", name |-> <<"A", "B">>, msg |-> "already exists"]
    /\ Len(beams) = 1 /\ beams[1].name = <<"a", "b">> /\ beams[1].length = 2
    /\ Len(materials) = 2

----------------------------------------------------------------------------
(* Branch selection, under Spec *)

(* C15: a distributed-load value at a grid position x is the first-segment
   formula exactly when x < T and the second-segment formula when x >= T
   (so also at x = T), in the rows and in the curves; a point-load value is
   the first branch exactly when x < a and the second when x >= a (so also
   at x = a). *)
C15_RowBranches ==
    pc \in {"compute", "returned"} =>
    \A k \in 1..Len(rows) :
        LET b == beams[ByName(beams, rows[k].beam)]
            l == loads[ByName(loads, rows[k].load)]
            E1 == R(materials[ByName(materials, rows[k].material1)].E)
            E2 == R(materials[ByName(materials, rows[k].material2)].E)
            Ib == moment_of_inertia(b)
            Lb == R(b.length)
            T == accepted[<<rows[k].beam, rows[k].load>>]
            x == rows[k].x
        IN  IF l.load_type = "distributed"
            THEN IF x[1] * T[2] < T[1] * x[2]
                 THEN /\ rows[k].y = y1(x, E1, Ib, Lb, R(l.w))
                      /\ rows[k].theta = theta1(x, E1, Ib, Lb, R(l.w))
                 ELSE /\ rows[k].y = y2(x, E1, E2, Ib, Lb, T, R(l.w))
                      /\ rows[k].theta = theta2(x, E1, E2, Ib, Lb, T, R(l.w))
            ELSE IF x[1] < l.a * x[2]
                 THEN /\ rows[k].y = y_point_load_lt(x, R(l.P), E1, Ib, R(l.a))
                      /\ rows[k].theta = theta_point_load_lt(x, R(l.P), E1, Ib, R(l.a))
                 ELSE /\ rows[k].y = y_point_load_ge(x, R(l.P), E1, Ib, R(l.a))
                      /\ rows[k].theta = theta_point_load_ge(x, R(l.P), E1, Ib, R(l.a))

C15_CurveBranches ==
    pc \in {"plot", "plot_returned"} =>
    \A c \in 1..Len(charts) :
        LET b == beams[ByName(beams, charts[c].beam)]
            l == loads[ByName(loads, charts[c].load)]
            Ib == moment_of_inertia(b)
            Lb == R(b.length)
            T == charts[c].T
        IN  \A k \in 1..Len(charts[c].curves) :
                LET E1 == R(materials[ByName(materials, charts[c].curves[k].label[1])].E)
                    E2 == R(materials[ByName(materials, charts[c].curves[k].label[2])].E)
                    pts == charts[c].curves[k].points
                IN  \A q \in 1..Len(pts) :
                        LET x == pts[q][1]
                        IN  IF l.load_type = "distributed"
                            THEN IF x[1] * T[2] < T[1] * x[2]
                                 THEN pts[q][2] = theta1(x, E1, Ib, Lb, R(l.w))
                                 ELSE pts[q][2] = theta2(x, E1, E2, Ib, Lb, T, R(l.w))
                            ELSE IF x[1] < l.a * x[2]
                                 THEN pts[q][2] = theta_point_load_lt(x, R(l.P), E1, Ib, R(l.a))
                                 ELSE pts[q][2] = theta_point_load_ge(x, R(l.P), E1, Ib, R(l.a))

C15_BranchSelection == C15_RowBranches /\ C15_CurveBranches

C15_Witness ==
    /\ Len(materials) = 2
    /\ <<"Beam1", "Uniform Load">> \in DOMAIN accepted
    /\ accepted[<<"Beam1", "Uniform Load">>] = R(2)
    /\ <<"Beam1", "Point Load 2">> \in DOMAIN accepted
    /\ \E k \in 1..Len(rows) :
         rows[k].load = "Uniform Load" /\ rows[k].x = R(2) /\ rows[k].material1 # rows[k].material2
    /\ \E k \in 1..Len(rows) : rows[k].load = "Point Load 2" /\ rows[k].x = R(2)
    /\ Len(charts) = 2

----------------------------------------------------------------------------
(* Self-pairing, under SpecKernel *)

(* C16: with one material on both segments the second-segment formulas are
   the single-material ones at every position: y2(x, E, E, I, L, T, w) =
   y1(x, E, I, L, w) and theta2(x, E, E, I, L, T, w) = theta1(x, E, I, L, w),
   whatever the transition point T. *)
C16_SelfPairIsSingleMaterial ==
    kpc = "selfpair" =>
        /\ kout.second_y = kout.first_y
        /\ kout.second_theta = kout.first_theta

C16_Witness ==
    /\ kpc = "selfpair"
    /\ kin.x = 1 /\ kin.T = 2 /\ kin.L = MaxLen
    /\ kout.first_y # R(0) /\ kout.first_theta # R(0)

----------------------------------------------------------------------------
(* The plot phase and its store, under Spec *)

(* every load is distributed, or a point load inside every beam *)
GoodCatalog ==
    \A i \in BeamIdx, j \in LoadIdx :
        \/ loads[j].load_type = "distributed"
        \/ loads[j].load_type = "point"
             /\ 0 < loads[j].a /\ loads[j].a < beams[i].length

StoreConsumed == \A name \in DOMAIN transition_points : transition_points[name] = <<>>

(* the transition point of each pair went to one chart, the chart of the pair *)
EachOnceInOrder ==
    \A i \in BeamIdx, j \in LoadIdx :
        /\ Pair(beams[i], loads[j]) \in DOMAIN accepted
        /\ Cardinality(ChartsOf(beams[i], loads[j])) = 1
        /\ \A k \in ChartsOf(beams[i], loads[j]) :
               charts[k].T = accepted[Pair(beams[i], loads[j])]

SecondCallStep == plotCalls >= 2 /\ plotCalls' = plotCalls => charts' = charts

(* C17 as stated, for every store plot_deflections may be given: with a
   catalog of distributed and in-range point loads only, every list of the
   store is empty when plot_deflections returns, and a second call on the
   same store renders no chart. *)
C17_AnyStoreConsumed ==
    /\ [](GoodCatalog /\ pc = "plot_returned" => StoreConsumed)
    /\ [][GoodCatalog => SecondCallStep]_vars

(* C17: for the store that compute_deflections returned to main on a catalog
   of distributed and in-range point loads only, plot_deflections removes
   each stored transition point exactly once, in insertion order, every list
   of the store is empty when it returns, and a second call on that store
   renders no chart. *)
C17_ComputedStoreConsumed ==
    /\ [](caller = "main" /\ GoodCatalog /\ pc = "plot_returned"
            => StoreConsumed /\ EachOnceInOrder)
    /\ [][caller = "main" /\ GoodCatalog => SecondCallStep]_vars

C17_Witness ==
    /\ caller = "main" /\ GoodCatalog
    /\ pc = "plot_returned" /\ plotCalls = 2
    /\ Len(beams) = 2 /\ Len(loads) = 2
    /\ Len(charts) = 4
    /\ \A i \in BeamIdx : beams[i].name \in DOMAIN transition_points

====
